---- MODULE Spec2Model ----
(***************************************************************************)
(* Model of the focus-state classifier AIStateDetector (src/app/page.tsx,  *)
(* lines 466-659) of ai-study-assistant.                                   *)
(*                                                                         *)
(* Units.  Angles are whole degrees.  The eye aspect ratio is counted in   *)
(* hundredths (0.25 is 25).  Confidence is counted in units of 1/ConfScale *)
(* with ConfScale = 45 * 60, so that every quotient the code forms         *)
(* (x / 0.25, x / 45, x / 60, x / 3) is exact on these inputs.  Time is    *)
(* milliseconds as returned by Date.now().                                 *)
(***************************************************************************)
EXTENDS Integers, FiniteSets, Sequences, TLC

VARIABLES
    currentState,     \* AIStateDetector.currentState
    stateStartTime,   \* AIStateDetector.stateStartTime
    stateTimers,      \* AIStateDetector.stateTimers (the keys of the map)
    now,              \* the latest value Date.now() has returned
    result,           \* the AIDetectionResult returned by the latest call
    lastCall,         \* which operation ran last: "none", "face", "noface", "reset"
    prevCand,         \* history: immediate state of the latest call on a measurement
    prevTime,         \* history: time of the latest call on a measurement
    runStart,         \* history: time of the first call of the current run
    lastOther,        \* history: time of the latest call whose immediate state
                      \*          differed from prevCand (-1 if there is none)
    fresh,            \* history: no measurement classified since construction/reset
    emitted,          \* history: state emitted by the latest call on a measurement
    prevEmitted       \* history: state emitted by the call on a measurement before it

(* the Home page (src/app/page.tsx) and the Python AI page                 *)
(* (src/app/python-ai/page.tsx)                                            *)
VARIABLES
    page,               \* which of the two pages is mounted: "home" or "python"
    isDetectionActive,  \* the page's isDetectionActive
    currentDetectionResult, \* the state of the page's currentDetectionResult
    detectionHistory,   \* the page's detectionHistory; an entry is its arrival number
    arrivals            \* history: number of handleStateChange calls so far

VARIABLES
    wait,         \* debounce: the wait argument
    timeout,      \* debounce: the closure's timeout, the id of the timer set last (0: none yet)
    timers,       \* the timers the runtime has scheduled and neither run nor cleared
    dbClock,      \* the runtime's clock in ms
    dbCalls,      \* history: number of calls of the debounced function
    dbLastAt,     \* history: time of the most recent call
    dbLastArgs,   \* history: arguments of the most recent call
    dbRunsSince,  \* history: runs of func since the most recent call
    dbRanArgs,    \* history: arguments of the latest run of func
    dbBurst       \* history: calls in the current burst

VARIABLES
    isActive,         \* PythonCamera: the isActive prop
    mounted,          \* PythonCamera: the component is mounted
    pendingStarts,    \* /camera/start requests in flight
    starts,           \* history: number of /camera/start requests sent
    sockets,          \* readyState of every WebSocket the component created, by creation order
    wsRef,            \* wsRef.current: an index of sockets, 0 for null
    connectionState,  \* PythonCamera's connectionState
    backendStatus,    \* PythonCamera's backendStatus (which text it shows)
    frameCount,       \* PythonCamera's frameCount
    lastDelivery      \* history: whether the latest onStateChange ran while active

VARIABLES
    sessionActive,  \* StudyModePage's sessionActive
    isStarting,     \* StudyModePage's isStarting
    inFlight,       \* a /session/start request is awaiting its reply
    attempts,       \* history: number of handleStartSession calls
    alerts,         \* history: number of alert() dialogs shown
    lastReply       \* history: the reply the latest attempt got

VARIABLES
    landmarks,   \* the argument of calculateHeadPose
    poseResult,  \* what calculateHeadPose returned
    poseCalled   \* history: calculateHeadPose has returned

detectorVars == <<currentState, stateStartTime, stateTimers, now, result, lastCall,
                  prevCand, prevTime, runStart, lastOther, fresh, emitted, prevEmitted>>

pageVars == <<page, isDetectionActive, currentDetectionResult, detectionHistory, arrivals>>

debounceVars == <<wait, timeout, timers, dbClock, dbCalls, dbLastAt, dbLastArgs,
                  dbRunsSince, dbRanArgs, dbBurst>>

cameraVars == <<isActive, mounted, pendingStarts, starts, sockets, wsRef, connectionState,
                backendStatus, frameCount, lastDelivery>>

sessionVars == <<sessionActive, isStarting, inFlight, attempts, alerts, lastReply>>

poseVars == <<landmarks, poseResult, poseCalled>>

otherVars == <<pageVars, debounceVars, cameraVars, sessionVars, poseVars>>

notPageVars == <<detectorVars, debounceVars, cameraVars, sessionVars, poseVars>>

notDebounceVars == <<detectorVars, pageVars, cameraVars, sessionVars, poseVars>>

notCameraVars == <<detectorVars, pageVars, debounceVars, sessionVars, poseVars>>

notSessionVars == <<detectorVars, pageVars, debounceVars, cameraVars, poseVars>>

notPoseVars == <<detectorVars, pageVars, debounceVars, cameraVars, sessionVars>>

vars == <<detectorVars, otherVars>>

----------------------------------------------------------------------------
(* Thresholds of the detector *)

DROWSY_EAR_THRESHOLD == 25
DROWSY_TIME_THRESHOLD == 25000
DISTRACTION_PITCH_THRESHOLD == 20
DISTRACTION_TIME_THRESHOLD == 15000
RELAXING_YAW_THRESHOLD == 30
RELAXING_TIME_THRESHOLD == 30000

FocusState == {"focused", "distracted", "relaxing", "drowsy", "unknown"}
AlertState == {"drowsy", "distracted", "relaxing"}

ConfScale == 45 * 60

Abs(x) == IF x < 0 THEN -x ELSE x
Max(a, b) == IF a >= b THEN a ELSE b
Min(a, b) == IF a <= b THEN a ELSE b

(* the hold duration of an alert state *)
Hold(s) ==
    CASE s = "drowsy" -> DROWSY_TIME_THRESHOLD
      [] s = "distracted" -> DISTRACTION_TIME_THRESHOLD
      [] s = "relaxing" -> RELAXING_TIME_THRESHOLD

----------------------------------------------------------------------------
(* Bounds and input sets *)

MaxTime == 45000

Holds == {DROWSY_TIME_THRESHOLD, DISTRACTION_TIME_THRESHOLD, RELAXING_TIME_THRESHOLD}

(* clock readings: run starts 0 and 15001 and, from each, every hold       *)
(* duration and the millisecond before it                                  *)
TimePoints ==
    {t \in {s + o : s \in {0, 15001},
                    o \in {0} \cup UNION {{h - 1, h} : h \in Holds}} :
        t <= MaxTime}

Pose(p, y, r) == [pitch |-> p, yaw |-> y, roll |-> r]
Frame(p, y, r, e) == [headPose |-> Pose(p, y, r), eyeAspectRatio |-> e]

Neutral    == Frame(0, 0, 0, 35)
OnEdge     == Frame(20, 30, 0, 25)
LookDown   == Frame(25, 0, 0, 35)
EyesClosed == Frame(0, 0, 0, 10)
Sentinel   == Frame(0, 0, 0, 0)
Sideways   == Frame(0, 40, 0, 35)

(* the measurements fed to the stateful specification *)
Frames == {Neutral, OnEdge, LookDown, EyesClosed, Sentinel, Sideways}

(* the measurements fed to the specification of the stateless rules *)
AllFrames ==
    {Frame(p, y, r, e) : p \in {-16, -15, 0, 20, 21, 45, 90},
                         y \in {-31, -30, 0, 30, 31},
                         r \in {0, 45},
                         e \in {0, 10, 24, 25, 26, 35}}

----------------------------------------------------------------------------
(* The detector *)

(* mutant: every comparison of the rule made inclusive *)
determineImmediateState_inclusive(headPose, eyeAspectRatio) ==
    IF eyeAspectRatio <= DROWSY_EAR_THRESHOLD THEN "drowsy"
    ELSE IF headPose.pitch >= DISTRACTION_PITCH_THRESHOLD THEN "distracted"
    ELSE IF Abs(headPose.yaw) >= RELAXING_YAW_THRESHOLD \/ headPose.pitch <= -15
         THEN "relaxing"
    ELSE "focused"

(* mutant: the head-pose checks made before the eye check *)
determineImmediateState_poseFirst(headPose, eyeAspectRatio) ==
    IF Abs(headPose.yaw) > RELAXING_YAW_THRESHOLD \/ headPose.pitch < -15
    THEN "relaxing"
    ELSE IF headPose.pitch > DISTRACTION_PITCH_THRESHOLD THEN "distracted"
    ELSE IF eyeAspectRatio < DROWSY_EAR_THRESHOLD THEN "drowsy"
    ELSE "focused"

(* mutant: an eye aspect ratio of zero is taken for "no face" *)
determineImmediateState_zeroUnknown(headPose, eyeAspectRatio) ==
    IF eyeAspectRatio = 0 THEN "unknown"
    ELSE IF eyeAspectRatio < DROWSY_EAR_THRESHOLD THEN "drowsy"
    ELSE IF headPose.pitch > DISTRACTION_PITCH_THRESHOLD THEN "distracted"
    ELSE IF Abs(headPose.yaw) > RELAXING_YAW_THRESHOLD \/ headPose.pitch < -15
         THEN "relaxing"
    ELSE "focused"

(* mutant: the relaxing check is missing *)
determineImmediateState_noRelaxing(headPose, eyeAspectRatio) ==
    IF eyeAspectRatio < DROWSY_EAR_THRESHOLD THEN "drowsy"
    ELSE IF headPose.pitch > DISTRACTION_PITCH_THRESHOLD THEN "distracted"
    ELSE "focused"

determineImmediateState(headPose, eyeAspectRatio) ==
    IF eyeAspectRatio < DROWSY_EAR_THRESHOLD THEN "drowsy"
    ELSE IF headPose.pitch > DISTRACTION_PITCH_THRESHOLD THEN "distracted"
    ELSE IF Abs(headPose.yaw) > RELAXING_YAW_THRESHOLD \/ headPose.pitch < -15
         THEN "relaxing"
    ELSE "focused"

(* mutant: the fallback is the alert state emitted last *)
getPreviousValidState_lastEmitted ==
    IF emitted \in AlertState THEN emitted ELSE "focused"

(* mutant: the fallback reads a history that was never written *)
getPreviousValidState_undefined == "undefined"

getPreviousValidState == "focused"

(* mutant: the timer is never restarted *)
timerStart_never(immediateState, currentTime) == stateStartTime

(* mutant: the timer is restarted by every call *)
timerStart_always(immediateState, currentTime) == currentTime

(* mutant: the timer is also restarted once a hold has been exceeded *)
timerStart_rearm(immediateState, currentTime) ==
    IF \/ immediateState # currentState
       \/ /\ immediateState \in AlertState
          /\ currentTime - stateStartTime > Hold(immediateState)
    THEN currentTime ELSE stateStartTime

(* the value of stateStartTime after the "state changed" test *)
timerStart(immediateState, currentTime) ==
    IF immediateState # currentState THEN currentTime ELSE stateStartTime

(* mutant: the hold must be exceeded, not reached *)
holdMet_strict(stateTime, threshold) == stateTime > threshold

(* the comparison of the time in state with a hold threshold *)
holdMet(stateTime, threshold) == stateTime >= threshold

(* applyTimeBasedLogic: the fields it leaves behind and the state it returns *)
applyTimeBasedLogic(immediateState, currentTime) ==
    LET start == timerStart(immediateState, currentTime)
        stateTime == currentTime - start
    IN  [currentState |-> IF immediateState # currentState
                          THEN immediateState ELSE currentState,
         stateStartTime |-> start,
         finalState |->
            CASE immediateState = "drowsy" ->
                    IF holdMet(stateTime, DROWSY_TIME_THRESHOLD)
                    THEN "drowsy" ELSE getPreviousValidState
              [] immediateState = "distracted" ->
                    IF holdMet(stateTime, DISTRACTION_TIME_THRESHOLD)
                    THEN "distracted" ELSE getPreviousValidState
              [] immediateState = "relaxing" ->
                    IF holdMet(stateTime, RELAXING_TIME_THRESHOLD)
                    THEN "relaxing" ELSE getPreviousValidState
              [] immediateState = "focused" -> "focused"
              [] OTHER -> "unknown"]

(* mutant: the drowsy score grows with the eye aspect ratio *)
drowsyScore_inverted(eyeAspectRatio) ==
    Max(ConfScale \div 10, (eyeAspectRatio * ConfScale) \div DROWSY_EAR_THRESHOLD)

(* the drowsy case of calculateConfidence *)
drowsyScore(eyeAspectRatio) ==
    Max(ConfScale \div 10,
        ConfScale - (eyeAspectRatio * ConfScale) \div DROWSY_EAR_THRESHOLD)

(* the distracted case of calculateConfidence *)
distractedScore(headPose) ==
    LET pitchFactor == Min((headPose.pitch * ConfScale) \div 45, ConfScale)
    IN  Max((3 * ConfScale) \div 10, pitchFactor)

(* the relaxing case of calculateConfidence *)
relaxingScore(headPose) ==
    LET yawFactor == Min((Abs(headPose.yaw) * ConfScale) \div 60, ConfScale)
    IN  Max((3 * ConfScale) \div 10, yawFactor)

(* mutant: an eye aspect ratio on the threshold counts as open *)
focusedScore_inclusive(headPose, eyeAspectRatio) ==
    LET pitchScore == ConfScale - (Abs(headPose.pitch) * ConfScale) \div 45
        yawScore == ConfScale - (Abs(headPose.yaw) * ConfScale) \div 60
        earScore == IF eyeAspectRatio >= DROWSY_EAR_THRESHOLD THEN ConfScale ELSE 0
    IN  (pitchScore + yawScore + earScore) \div 3

(* the focused case of calculateConfidence *)
focusedScore(headPose, eyeAspectRatio) ==
    LET pitchScore == ConfScale - (Abs(headPose.pitch) * ConfScale) \div 45
        yawScore == ConfScale - (Abs(headPose.yaw) * ConfScale) \div 60
        earScore == IF eyeAspectRatio > DROWSY_EAR_THRESHOLD THEN ConfScale ELSE 0
    IN  (pitchScore + yawScore + earScore) \div 3

calculateConfidence(headPose, eyeAspectRatio, state) ==
    LET confidence ==
          CASE state = "drowsy" -> drowsyScore(eyeAspectRatio)
            [] state = "distracted" -> distractedScore(headPose)
            [] state = "relaxing" -> relaxingScore(headPose)
            [] state = "focused" -> focusedScore(headPose, eyeAspectRatio)
            [] OTHER -> ConfScale \div 10
    IN  Max(ConfScale \div 10, Min(ConfScale, confidence))

(* the score the result carries: calculateConfidence is called with the    *)
(* immediate state (page.tsx line 519)                                     *)
scoredState(immediateState, finalState) == immediateState

NoResult == [state |-> "none", confidence |-> 0,
             headPose |-> Pose(0, 0, 0), eyeAspectRatio |-> 0]

(* analyzeFaceLandmarks on a landmark set from which calculateHeadPose and *)
(* calculateEAR derive the measurement m, Date.now() returning t           *)
AnalyzeFace(m, t) ==
    /\ t >= now
    /\ LET immediateState == determineImmediateState(m.headPose, m.eyeAspectRatio)
           tb == applyTimeBasedLogic(immediateState, t)
           confidence == calculateConfidence(m.headPose, m.eyeAspectRatio,
                                             scoredState(immediateState, tb.finalState))
       IN  /\ currentState' = tb.currentState
           /\ stateStartTime' = tb.stateStartTime
           /\ result' = [state |-> tb.finalState, confidence |-> confidence,
                         headPose |-> m.headPose,
                         eyeAspectRatio |-> m.eyeAspectRatio]
           /\ emitted' = tb.finalState
           /\ prevEmitted' = emitted
           /\ prevCand' = immediateState
           /\ runStart' = IF fresh \/ immediateState # prevCand THEN t ELSE runStart
           /\ lastOther' = IF prevCand # "none" /\ immediateState # prevCand
                           THEN prevTime ELSE lastOther
    /\ now' = t
    /\ prevTime' = t
    /\ lastCall' = "face"
    /\ fresh' = FALSE
    /\ UNCHANGED stateTimers
    /\ UNCHANGED otherVars

(* analyzeFaceLandmarks on an empty or missing landmark set *)
noFaceResult ==
    [state |-> "unknown", confidence |-> 0,
     headPose |-> Pose(0, 0, 0), eyeAspectRatio |-> 0]

(* mutant: a frame without a face also forgets the current candidate *)
AnalyzeNoFace_clears ==
    /\ result' = noFaceResult
    /\ lastCall' = "noface"
    /\ currentState' = "unknown"
    /\ UNCHANGED <<stateStartTime, stateTimers, now,
                   prevCand, prevTime, runStart, lastOther, fresh,
                   emitted, prevEmitted>>
    /\ UNCHANGED otherVars

AnalyzeNoFace ==
    /\ result' = noFaceResult
    /\ lastCall' = "noface"
    /\ UNCHANGED <<currentState, stateStartTime, stateTimers, now,
                   prevCand, prevTime, runStart, lastOther, fresh,
                   emitted, prevEmitted>>
    /\ UNCHANGED otherVars

(* mutant: resetTimers clears the map only *)
resetTimers_keep(t) == [stateTimers |-> {}, stateStartTime |-> stateStartTime]

(* resetTimers, Date.now() returning t: the fields it leaves behind *)
resetTimers(t) == [stateTimers |-> {}, stateStartTime |-> t]

(* reset(), Date.now() returning t *)
reset(t) ==
    /\ t >= now
    /\ currentState' = "unknown"
    /\ stateTimers' = resetTimers(t).stateTimers
    /\ stateStartTime' = resetTimers(t).stateStartTime
    /\ now' = t
    /\ lastCall' = "reset"
    /\ fresh' = TRUE
    /\ UNCHANGED <<result, prevCand, prevTime, runStart, lastOther,
                   emitted, prevEmitted>>
    /\ UNCHANGED otherVars

(* the detector after construction *)
InitDetector ==
    /\ currentState = "unknown"
    /\ now = 0
    /\ stateStartTime = 0
    /\ stateTimers = {}
    /\ result = NoResult
    /\ lastCall = "none"
    /\ prevCand = "none"
    /\ prevTime = -1
    /\ runStart = -1
    /\ lastOther = -1
    /\ fresh = TRUE
    /\ emitted = "none"
    /\ prevEmitted = "none"

(* the page pg after its first render *)
InitPageOf(pg) ==
    /\ page = pg
    /\ isDetectionActive = FALSE
    /\ currentDetectionResult = "unknown"
    /\ detectionHistory = <<>>
    /\ arrivals = 0

InitPage == InitPageOf("home")

(* debounce(func, w) has returned and the returned function was not called yet *)
InitDebounceOf(w) ==
    /\ wait = w
    /\ timeout = 0
    /\ timers = {}
    /\ dbClock = 0
    /\ dbCalls = 0
    /\ dbLastAt = -1
    /\ dbLastArgs = "none"
    /\ dbRunsSince = 0
    /\ dbRanArgs = "none"
    /\ dbBurst = 0

InitDebounce == InitDebounceOf(0)

(* PythonCamera after its first render with isActive false: the effect has *)
(* called disconnectWebSocket                                              *)
InitCamera ==
    /\ isActive = FALSE
    /\ mounted = TRUE
    /\ pendingStarts = 0
    /\ starts = 0
    /\ sockets = <<>>
    /\ wsRef = 0
    /\ connectionState = "disconnected"
    /\ backendStatus = ""
    /\ frameCount = 0
    /\ lastDelivery = "none"

NoReply == [kind |-> "none", success |-> "undefined"]

(* StudyModePage after its first render *)
InitSession ==
    /\ sessionActive = FALSE
    /\ isStarting = FALSE
    /\ inFlight = FALSE
    /\ attempts = 0
    /\ alerts = 0
    /\ lastReply = NoReply

(* a JavaScript number: the rational n/d, NaN, an infinity of sign n, or    *)
(* the arc tangent of n/d in degrees                                       *)
Num(n, d) == [k |-> "num", n |-> n, d |-> d]
NaN == [k |-> "nan", n |-> 0, d |-> 1]
Infinity(sign) == [k |-> "inf", n |-> sign, d |-> 1]

ZeroPose == [pitch |-> Num(0, 1), yaw |-> Num(0, 1), roll |-> Num(0, 1)]

Point(x, y) == [x |-> x, y |-> y]

(* landmarks with the five reference points at the given places; missing   *)
(* names the one that is absent, "all" for an empty array, "none" for none *)
LandmarkSet(nose, leftEye, rightEye, chin, forehead, missing) ==
    [nose |-> nose, leftEye |-> leftEye, rightEye |-> rightEye, chin |-> chin,
     forehead |-> forehead, missing |-> missing]

(* calculateHeadPose is about to be called on the landmark set lm *)
InitPoseOf(lm) ==
    /\ landmarks = lm
    /\ poseResult = ZeroPose
    /\ poseCalled = FALSE

InitPose ==
    InitPoseOf(LandmarkSet(Point(1, 1), Point(0, 0), Point(2, 0), Point(1, 2),
                           Point(1, 0), "none"))

InitOthers == InitPage /\ InitDebounce /\ InitCamera /\ InitSession /\ InitPose

Init == InitDetector /\ InitOthers

(* mutant: getCurrentState reports the state emitted last *)
getCurrentState_emitted == IF emitted = "none" THEN "unknown" ELSE emitted

getCurrentState == currentState

Classify == \E m \in Frames, t \in TimePoints : AnalyzeFace(m, t)
Reset == \E t \in TimePoints : reset(t)

Next == Classify \/ AnalyzeNoFace \/ Reset

Spec == Init /\ [][Next]_vars

(* the stateless rules on every measurement of AllFrames, the clock held   *)
(* at the construction time                                                *)
ClassifyAny == \E m \in AllFrames : AnalyzeFace(m, now)

NextRules == ClassifyAny \/ AnalyzeNoFace

SpecRules == Init /\ [][NextRules]_vars

(* the confidence scores: measurements around every cap and floor of the   *)
(* score formulas, classified at the construction time and one full hold   *)
(* later, so that alert states are emitted as well                         *)
ConfFrames ==
    {Frame(p, y, 0, e) : p \in {-16, 0, 21, 45, 90},
                         y \in {-90, 0, 31},
                         e \in {0, 10, 22, 23, 24, 25, 26}}

ConfTimes == {0, RELAXING_TIME_THRESHOLD}

ClassifyConf == \E m \in ConfFrames, t \in ConfTimes : AnalyzeFace(m, t)

NextConf == ClassifyConf \/ AnalyzeNoFace

SpecConf == Init /\ [][NextConf]_vars

----------------------------------------------------------------------------
(* The detection history of the two pages *)

HOME_HISTORY_KEEP == 50
PYTHON_HISTORY_KEEP == 100

MaxDetections == 104

(* the argument of slice in handleStateChange *)
historyKeep == IF page = "home" THEN HOME_HISTORY_KEEP ELSE PYTHON_HISTORY_KEEP

(* prev.slice(-n) *)
sliceLast(prev, n) ==
    IF Len(prev) <= n THEN prev ELSE SubSeq(prev, Len(prev) - n + 1, Len(prev))

handleStateChange(st) ==
    /\ arrivals < MaxDetections
    /\ arrivals' = arrivals + 1
    /\ currentDetectionResult' = st
    /\ detectionHistory' = Append(sliceLast(detectionHistory, historyKeep), arrivals + 1)
    /\ UNCHANGED <<page, isDetectionActive>>
    /\ UNCHANGED notPageVars

toggleDetection ==
    /\ isDetectionActive' = ~isDetectionActive
    /\ currentDetectionResult' =
          IF ~isDetectionActive THEN "unknown" ELSE currentDetectionResult
    /\ detectionHistory' = IF ~isDetectionActive THEN <<>> ELSE detectionHistory
    /\ UNCHANGED <<page, arrivals>>
    /\ UNCHANGED notPageVars

InitPages ==
    /\ InitDetector
    /\ \E pg \in {"home", "python"} : InitPageOf(pg)
    /\ InitDebounce
    /\ InitCamera
    /\ InitSession
    /\ InitPose

StateChange == \E st \in {"focused", "drowsy"} : handleStateChange(st)

NextPages == StateChange \/ toggleDetection

SpecPages == InitPages /\ [][NextPages]_vars

----------------------------------------------------------------------------
(* debounce *)

MaxClock == 7
MaxCalls == 4

Waits == {0, 2, 3}
Args == {"a", "b"}

(* mutant: clearTimeout leaves the timer scheduled *)
clearTimeout_noop(id, scheduled) == scheduled

clearTimeout(id, scheduled) == {x \in scheduled : x.id # id}

(* setTimeout(() => func(...args), wait) scheduled at time t under the id n *)
setTimeout(n, args, w, t) == [id |-> n, args |-> args, due |-> t + w]

(* a call of the function debounce returned *)
debounced(args) ==
    /\ dbCalls < MaxCalls
    /\ dbClock + wait <= MaxClock
    /\ timers' = clearTimeout(timeout, timers)
                     \cup {setTimeout(dbCalls + 1, args, wait, dbClock)}
    /\ timeout' = dbCalls + 1
    /\ dbCalls' = dbCalls + 1
    /\ dbBurst' = IF dbLastAt >= 0 /\ dbClock < dbLastAt + wait THEN dbBurst + 1 ELSE 1
    /\ dbLastAt' = dbClock
    /\ dbLastArgs' = args
    /\ dbRunsSince' = 0
    /\ UNCHANGED <<wait, dbClock, dbRanArgs>>
    /\ UNCHANGED notDebounceVars

DebouncedCall == \E args \in Args : debounced(args)

(* the runtime runs a timer that is due: func(...args) *)
TimerFire ==
    /\ \E x \in timers :
          /\ x.due <= dbClock
          /\ timers' = timers \ {x}
          /\ dbRanArgs' = x.args
    /\ dbRunsSince' = dbRunsSince + 1
    /\ UNCHANGED <<wait, timeout, dbClock, dbCalls, dbLastAt, dbLastArgs, dbBurst>>
    /\ UNCHANGED notDebounceVars

(* a millisecond passes *)
Advance ==
    /\ dbClock < MaxClock
    /\ dbClock' = dbClock + 1
    /\ UNCHANGED <<wait, timeout, timers, dbCalls, dbLastAt, dbLastArgs, dbRunsSince,
                   dbRanArgs, dbBurst>>
    /\ UNCHANGED notDebounceVars

InitDebounceSpec ==
    /\ InitDetector
    /\ InitPage
    /\ \E w \in Waits : InitDebounceOf(w)
    /\ InitCamera
    /\ InitSession
    /\ InitPose

NextDebounce == DebouncedCall \/ TimerFire \/ Advance

(* time passes and the runtime runs the timers that are due *)
SpecDebounce ==
    InitDebounceSpec /\ [][NextDebounce]_vars /\ WF_vars(Advance) /\ WF_vars(TimerFire)

----------------------------------------------------------------------------
(* PythonCamera *)

MaxStarts == 3
MaxFrames == 2

(* a state setter: React drops the update of an unmounted component *)
setState(cur, new) == IF mounted THEN new ELSE cur

(* WebSocket.close(): an open or connecting socket starts closing *)
close(socks, id) ==
    [socks EXCEPT ![id] = IF @ \in {"connecting", "open"} THEN "closing" ELSE @]

live(id) == sockets[id] \in {"connecting", "open"}

disconnectWebSocket ==
    /\ sockets' = IF wsRef # 0 THEN close(sockets, wsRef) ELSE sockets
    /\ wsRef' = 0
    /\ connectionState' = setState(connectionState, "disconnected")
    /\ frameCount' = setState(frameCount, 0)

connectWebSocket ==
    IF wsRef # 0 /\ sockets[wsRef] = "open"
    THEN UNCHANGED <<sockets, wsRef, connectionState>>
    ELSE /\ connectionState' = setState(connectionState, "connecting")
         /\ sockets' = Append(sockets, "connecting")
         /\ wsRef' = Len(sockets) + 1

(* isActive becomes true: the effect's cleanup, then startBackend() *)
Activate ==
    /\ mounted /\ ~isActive
    /\ starts < MaxStarts
    /\ isActive' = TRUE
    /\ disconnectWebSocket
    /\ pendingStarts' = pendingStarts + 1
    /\ starts' = starts + 1
    /\ UNCHANGED <<mounted, backendStatus, lastDelivery>>
    /\ UNCHANGED notCameraVars

(* isActive becomes false: the effect's cleanup, then the effect *)
Deactivate ==
    /\ mounted /\ isActive
    /\ isActive' = FALSE
    /\ disconnectWebSocket
    /\ UNCHANGED <<mounted, pendingStarts, starts, backendStatus, lastDelivery>>
    /\ UNCHANGED notCameraVars

(* the component unmounts: the effect's cleanup *)
Unmount ==
    /\ mounted
    /\ mounted' = FALSE
    /\ disconnectWebSocket
    /\ UNCHANGED <<isActive, pendingStarts, starts, backendStatus, lastDelivery>>
    /\ UNCHANGED notCameraVars

(* the /camera/start request settles and the then-callback of the effect runs *)
startReply(outcome) ==
    /\ pendingStarts > 0
    /\ pendingStarts' = pendingStarts - 1
    /\ backendStatus' =
          setState(backendStatus, IF outcome = "error" THEN "backend error" ELSE "message")
    /\ IF outcome = "success"
       THEN connectWebSocket
       ELSE UNCHANGED <<sockets, wsRef, connectionState>>
    /\ UNCHANGED <<isActive, mounted, starts, frameCount, lastDelivery>>
    /\ UNCHANGED notCameraVars

StartReply == \E outcome \in {"success", "refused", "error"} : startReply(outcome)

(* ws.onopen *)
SocketOpen ==
    \E id \in DOMAIN sockets :
        /\ sockets[id] = "connecting"
        /\ sockets' = [sockets EXCEPT ![id] = "open"]
        /\ connectionState' = setState(connectionState, "connected")
        /\ backendStatus' = setState(backendStatus, "connected")
        /\ UNCHANGED <<isActive, mounted, pendingStarts, starts, wsRef, frameCount,
                       lastDelivery>>
        /\ UNCHANGED notCameraVars

(* ws.onmessage on an open socket *)
onmessage(id, data) ==
    /\ sockets[id] = "open"
    /\ backendStatus' =
          IF data = "error" THEN setState(backendStatus, "backend error") ELSE backendStatus
    /\ frameCount' =
          IF data = "frame" /\ frameCount < MaxFrames
          THEN setState(frameCount, frameCount + 1) ELSE frameCount
    /\ lastDelivery' =
          IF data = "detection"
          THEN (IF mounted /\ isActive THEN "active" ELSE "inactive")
          ELSE lastDelivery
    /\ UNCHANGED <<isActive, mounted, pendingStarts, starts, sockets, wsRef, connectionState>>
    /\ UNCHANGED notCameraVars

SocketMessage ==
    \E id \in DOMAIN sockets, data \in {"error", "frame", "detection"} : onmessage(id, data)

(* the connection fails: ws.onerror, the close event follows *)
SocketError ==
    \E id \in DOMAIN sockets :
        /\ live(id)
        /\ sockets' = [sockets EXCEPT ![id] = "closing"]
        /\ connectionState' = setState(connectionState, "error")
        /\ backendStatus' = setState(backendStatus, "ws error")
        /\ UNCHANGED <<isActive, mounted, pendingStarts, starts, wsRef, frameCount,
                       lastDelivery>>
        /\ UNCHANGED notCameraVars

(* ws.onclose: the server closed an open socket, or a closing socket finished *)
SocketClose ==
    \E id \in DOMAIN sockets :
        /\ sockets[id] \in {"open", "closing"}
        /\ sockets' = [sockets EXCEPT ![id] = "closed"]
        /\ connectionState' = setState(connectionState, "disconnected")
        /\ backendStatus' = setState(backendStatus, "disconnected")
        /\ wsRef' = 0
        /\ UNCHANGED <<isActive, mounted, pendingStarts, starts, frameCount, lastDelivery>>
        /\ UNCHANGED notCameraVars

InitCameraSpec ==
    /\ InitDetector
    /\ InitPage
    /\ InitDebounce
    /\ InitCamera
    /\ InitSession
    /\ InitPose

NextCamera ==
    \/ Activate
    \/ Deactivate
    \/ Unmount
    \/ StartReply
    \/ SocketOpen
    \/ SocketMessage
    \/ SocketError
    \/ SocketClose

SpecCamera == InitCameraSpec /\ [][NextCamera]_vars

----------------------------------------------------------------------------
(* StudyModePage *)

MaxAttempts == 6

(* what an attempt can get: a JSON body with some success field, or a      *)
(* rejected fetch / an unparsable body                                     *)
Replies ==
    {[kind |-> "json", success |-> v] : v \in {"true", "false", "undefined"}}
        \cup {[kind |-> "error", success |-> "undefined"]}

(* mutant: every JSON reply counts as success *)
succeeded_anyJson(reply) == reply.kind = "json"

(* the try block reaches setSessionActive(true) *)
succeeded(reply) == reply.kind = "json" /\ reply.success = "true"

(* the start button of SessionSetup is shown and enabled *)
handleStartSession ==
    /\ ~sessionActive /\ ~isStarting
    /\ attempts < MaxAttempts
    /\ isStarting' = TRUE
    /\ inFlight' = TRUE
    /\ attempts' = attempts + 1
    /\ UNCHANGED <<sessionActive, alerts, lastReply>>
    /\ UNCHANGED notSessionVars

(* the awaited request settles: the rest of handleStartSession *)
sessionReply(reply) ==
    /\ inFlight
    /\ inFlight' = FALSE
    /\ lastReply' = reply
    /\ IF succeeded(reply)
       THEN sessionActive' = TRUE /\ alerts' = alerts
       ELSE sessionActive' = sessionActive /\ alerts' = alerts + 1
    /\ isStarting' = FALSE
    /\ UNCHANGED attempts
    /\ UNCHANGED notSessionVars

SessionReply == \E reply \in Replies : sessionReply(reply)

(* ActiveSession is shown and calls onEndSession *)
handleEndSession ==
    /\ sessionActive
    /\ sessionActive' = FALSE
    /\ UNCHANGED <<isStarting, inFlight, attempts, alerts, lastReply>>
    /\ UNCHANGED notSessionVars

InitSessionSpec ==
    /\ InitDetector
    /\ InitPage
    /\ InitDebounce
    /\ InitCamera
    /\ InitSession
    /\ InitPose

NextSession == handleStartSession \/ SessionReply \/ handleEndSession

SpecSession == InitSessionSpec /\ [][NextSession]_vars

----------------------------------------------------------------------------
(* calculateHeadPose *)

MaxCoord == 2

Coord == 0..MaxCoord

Sign(a) == IF a > 0 THEN 1 ELSE IF a < 0 THEN -1 ELSE 0

(* a / b for integers a and b, b = 0 being +0 *)
jsDiv(a, b) ==
    IF b = 0 THEN (IF a = 0 THEN NaN ELSE Infinity(Sign(a)))
    ELSE Num(a * Sign(b), Abs(b))

(* v * c for an integer c > 0 *)
jsTimes(v, c) == IF v.k = "num" THEN Num(v.n * c, v.d) ELSE v

(* (v - 0.4) * 90 *)
pitchScale(v) == IF v.k = "num" THEN Num(90 * v.n - 36 * v.d, v.d) ELSE v

(* Math.atan(v) * (180 / Math.PI) *)
atanDegrees(v) ==
    CASE v.k = "nan" -> NaN
      [] v.k = "inf" -> Num(90 * v.n, 1)
      [] OTHER -> [k |-> "atan", n |-> v.n, d |-> v.d]

(* v < c and v > c as JavaScript compares them, c an integer; an arc        *)
(* tangent is only compared with -45 and 45                                 *)
jsLess(v, c) ==
    CASE v.k = "nan" -> FALSE
      [] v.k = "inf" -> v.n < 0
      [] v.k = "atan" -> v.n < Sign(c) * v.d
      [] OTHER -> v.n < c * v.d

jsGreater(v, c) ==
    CASE v.k = "nan" -> FALSE
      [] v.k = "inf" -> v.n > 0
      [] v.k = "atan" -> v.n > Sign(c) * v.d
      [] OTHER -> v.n > c * v.d

(* Math.min(c, v) and Math.max(c, v): NaN if v is NaN *)
mathMin(c, v) == IF v.k = "nan" THEN NaN ELSE IF jsGreater(v, c) THEN Num(c, 1) ELSE v
mathMax(c, v) == IF v.k = "nan" THEN NaN ELSE IF jsLess(v, c) THEN Num(c, 1) ELSE v

clampAngle(lo, hi, v) == mathMax(lo, mathMin(hi, v))

calculateHeadPose(lm) ==
    IF lm.missing # "none" THEN ZeroPose
    ELSE
        LET nose == lm.nose
            leftEye == lm.leftEye
            rightEye == lm.rightEye
            chin == lm.chin
            forehead == lm.forehead
            eyeDistance == Abs(leftEye.x - rightEye.x)
            noseToLeftEye == Abs(nose.x - leftEye.x)
            noseToRightEye == Abs(nose.x - rightEye.x)
            yaw == IF eyeDistance > 0
                   THEN jsTimes(jsDiv(noseToRightEye - noseToLeftEye, eyeDistance), 45)
                   ELSE Num(0, 1)
            verticalDistance == Abs(forehead.y - chin.y)
            noseVerticalPosition == jsDiv(nose.y - forehead.y, verticalDistance)
            pitch == pitchScale(noseVerticalPosition)
            eyeSlope == jsDiv(rightEye.y - leftEye.y, rightEye.x - leftEye.x)
            roll == atanDegrees(eyeSlope)
        IN  [pitch |-> clampAngle(-90, 90, pitch),
             yaw |-> clampAngle(-90, 90, yaw),
             roll |-> clampAngle(-45, 45, roll)]

CalculateHeadPose ==
    /\ ~poseCalled
    /\ poseResult' = calculateHeadPose(landmarks)
    /\ poseCalled' = TRUE
    /\ UNCHANGED landmarks
    /\ UNCHANGED notPoseVars

LandmarkSets ==
    {LandmarkSet(Point(nx, ny), Point(lx, ly), Point(rx, ry), Point(1, cy), Point(1, fy), m) :
        nx \in Coord, ny \in Coord, lx \in Coord, ly \in Coord, rx \in Coord,
        ry \in Coord, cy \in Coord, fy \in Coord,
        m \in {"none", "all", "nose", "leftEye", "rightEye", "chin", "forehead"}}

InitPoseSpec ==
    /\ InitDetector
    /\ InitPage
    /\ InitDebounce
    /\ InitCamera
    /\ InitSession
    /\ \E lm \in LandmarkSets : InitPoseOf(lm)

NextPose == CalculateHeadPose

SpecPose == InitPoseSpec /\ [][NextPose]_vars

(* the reference scenario: a neutral frame at 0, the looking-down frame  *)
(* from 0 on, at 15000, then the eyes-closed frame from 15001 to 40001     *)
ScenarioStep == 250

ScenarioTimes ==
    {t \in 0..40001 : t % ScenarioStep = 0 \/ t \in {14999, 15001, 40001}}

Scenario1 == lastCall = "none" /\ AnalyzeFace(Neutral, 0)

Scenario2 ==
    /\ prevCand \in {"focused", "distracted"}
    /\ \E t \in ScenarioTimes :
          /\ t <= 14999
          /\ prevCand = "focused" => t = 0
          /\ AnalyzeFace(LookDown, t)

Scenario3 == prevCand = "distracted" /\ now <= 14999 /\ AnalyzeFace(LookDown, 15000)

Scenario4 == prevCand = "distracted" /\ now = 15000 /\ AnalyzeFace(EyesClosed, 15001)

Scenario5 ==
    /\ prevCand = "drowsy"
    /\ \E t \in ScenarioTimes : t > now /\ AnalyzeFace(EyesClosed, t)

NextScenario == Scenario1 \/ Scenario2 \/ Scenario3 \/ Scenario4 \/ Scenario5

SpecScenario == Init /\ [][NextScenario]_vars

----------------------------------------------------------------------------
(* Properties *)

(* the measurement and the candidate of the latest call on a measurement *)
lastFrame == [headPose |-> result.headPose, eyeAspectRatio |-> result.eyeAspectRatio]
onFace == lastCall = "face"
heldMs == now - runStart

(* C1: hold confirmation.  While the candidate stays at an alert state X   *)
(* from the first call of its run at runStart, a call at time now emits    *)
(* focused when now - runStart < H(X) and emits X when now - runStart >=   *)
(* H(X), the boundary included.                                            *)
C1_HoldConfirmation ==
    (onFace /\ prevCand \in AlertState) =>
        result.state = IF heldMs >= Hold(prevCand) THEN prevCand ELSE "focused"

C1_Witness ==
    /\ onFace
    /\ prevCand = "distracted"
    /\ heldMs = DISTRACTION_TIME_THRESHOLD
    /\ result.state = "distracted"
    /\ runStart > 0

(* C2: focused is never delayed.  A measurement inside all four limits is  *)
(* classified focused and emitted focused by that very call, whatever the  *)
(* stored state was.                                                       *)
C2_FocusedImmediate ==
    (/\ onFace
     /\ result.eyeAspectRatio >= DROWSY_EAR_THRESHOLD
     /\ result.headPose.pitch <= DISTRACTION_PITCH_THRESHOLD
     /\ Abs(result.headPose.yaw) <= RELAXING_YAW_THRESHOLD
     /\ result.headPose.pitch >= -15)
        => (currentState = "focused" /\ prevCand = "focused" /\ result.state = "focused")

C2_Witness ==
    /\ onFace
    /\ lastFrame = OnEdge
    /\ result.state = "focused"
    /\ stateStartTime = now
    /\ lastOther = now
    /\ now > 0

(* C3 as stated: when a call at time now emits an alert state X, every     *)
(* call on a measurement made in the closed interval [now - H(X), now] had *)
(* candidate X.                                                            *)
C3_ClosedWindow ==
    (onFace /\ result.state \in AlertState) =>
        /\ prevCand = result.state
        /\ runStart <= now - Hold(result.state)
        /\ lastOther < now - Hold(result.state)

(* C3 amended: when a call at time now emits an alert state X, the         *)
(* uninterrupted run of candidate X began at or before now - H(X) and no   *)
(* call on a measurement made after now - H(X) had another candidate; a    *)
(* frame that starts a run (the first frame of an instance among them)     *)
(* emits focused.                                                          *)
C3_NoiseSuppression ==
    /\ (onFace /\ result.state \in AlertState) =>
            /\ prevCand = result.state
            /\ runStart <= now - Hold(result.state)
            /\ lastOther <= now - Hold(result.state)
    /\ (onFace /\ runStart = now) => result.state = "focused"

C3_Witness ==
    /\ onFace
    /\ result.state = "drowsy"
    /\ lastOther > 0
    /\ runStart > lastOther
    /\ heldMs = DROWSY_TIME_THRESHOLD

(* C4: the immediate state is the four-way first-match function of EAR,    *)
(* pitch and yaw with strict comparisons; it depends on nothing else.      *)
C4_ImmediateRule ==
    onFace =>
        LET e == result.eyeAspectRatio
            p == result.headPose.pitch
            y == result.headPose.yaw
            isDrowsy == e < 25
            isDistracted == ~isDrowsy /\ p > 20
            isRelaxing == ~isDrowsy /\ ~isDistracted /\ (y > 30 \/ y < -30 \/ p < -15)
        IN  /\ prevCand = "drowsy" <=> isDrowsy
            /\ prevCand = "distracted" <=> isDistracted
            /\ prevCand = "relaxing" <=> isRelaxing
            /\ prevCand = "focused" <=> ~(isDrowsy \/ isDistracted \/ isRelaxing)
            /\ currentState = prevCand

C4_Witness ==
    /\ onFace
    /\ result.eyeAspectRatio = 25
    /\ result.headPose = Pose(20, -30, 45)
    /\ prevCand = "focused"

(* C5: severity-first tie-break.  EAR below its threshold together with    *)
(* pitch above its threshold gives candidate drowsy; pitch above its       *)
(* threshold together with |yaw| above its threshold gives distracted.     *)
C5_TieBreak ==
    onFace =>
        /\ (result.eyeAspectRatio < DROWSY_EAR_THRESHOLD
              /\ result.headPose.pitch > DISTRACTION_PITCH_THRESHOLD)
                => prevCand = "drowsy"
        /\ (result.eyeAspectRatio >= DROWSY_EAR_THRESHOLD
              /\ result.headPose.pitch > DISTRACTION_PITCH_THRESHOLD
              /\ Abs(result.headPose.yaw) > RELAXING_YAW_THRESHOLD)
                => prevCand = "distracted"

C5_Witness ==
    /\ onFace
    /\ result.eyeAspectRatio = 10
    /\ result.headPose = Pose(45, 31, 0)
    /\ prevCand = "drowsy"
    /\ currentState = "drowsy"

(* C6: timer invariant.  A call on a measurement leaves currentState equal *)
(* to its candidate, sets stateStartTime to the call time exactly when the *)
(* candidate differs from the previous currentState and keeps it otherwise;*)
(* stateStartTime then is the time of the first call of the current run,   *)
(* and it never decreases while currentState keeps its value.              *)
C6_TimerInvariant ==
    [][/\ lastCall' = "face" =>
            /\ currentState' =
                 determineImmediateState(result'.headPose, result'.eyeAspectRatio)
            /\ stateStartTime' =
                 IF currentState' # currentState THEN now' ELSE stateStartTime
            /\ stateStartTime' = runStart'
       /\ currentState' = currentState => stateStartTime' >= stateStartTime]_vars

C6_Witness ==
    /\ onFace
    /\ currentState = "relaxing"
    /\ stateStartTime = 14999
    /\ now = 30000

(* C7: the confidence of a result is the score of the state it emits.      *)
C7_ConfidenceOfEmitted ==
    onFace =>
        result.confidence =
            calculateConfidence(result.headPose, result.eyeAspectRatio, result.state)

(* C8: every returned result has confidence in [0.1, 1.0].                 *)
C8_ConfidenceRange ==
    (lastCall \in {"face", "noface"}) =>
        (result.confidence >= ConfScale \div 10 /\ result.confidence <= ConfScale)

(* C9: the reference scenario emits focused with confidence 1.0, focused   *)
(* up to 14999, distracted with confidence 25/45 at 15000, focused at      *)
(* 15001 and drowsy with confidence 0.6 at 40001.                          *)
C9_Scenario ==
    /\ (onFace /\ lastFrame = Neutral) =>
            (result.state = "focused" /\ result.confidence = ConfScale)
    /\ (onFace /\ lastFrame = LookDown /\ now <= 14999) => result.state = "focused"
    /\ (onFace /\ lastFrame = LookDown /\ now = 15000) =>
            (result.state = "distracted" /\ result.confidence * 45 = 25 * ConfScale)
    /\ (onFace /\ lastFrame = EyesClosed /\ now = 15001) => result.state = "focused"
    /\ (onFace /\ lastFrame = EyesClosed /\ now = 40001) =>
            (result.state = "drowsy" /\ result.confidence * 10 = 6 * ConfScale)

C9_Witness ==
    /\ onFace
    /\ lastFrame = EyesClosed
    /\ now = 40001
    /\ result.state = "drowsy"
    /\ lastOther = 15000

(* C10: the no-face sentinel measurement never yields an alert state.      *)
C10_SentinelNeverAlerts ==
    (onFace /\ lastFrame = Sentinel) => result.state \notin AlertState

(* C11: reset() leaves currentState unknown and stateStartTime at the time *)
(* of the reset, whatever came before, and no hold time from before the    *)
(* reset counts: the first frame after it emits focused, and an alert      *)
(* state is emitted only once its run since the reset has lasted H(X).     *)
C11_Reset ==
    [][/\ lastCall' = "reset" =>
            (currentState' = "unknown" /\ stateStartTime' = now')
       /\ (fresh /\ lastCall' = "face") =>
            (result'.state = "focused" /\ stateStartTime' = now')
       /\ (lastCall' = "face" /\ result'.state \in AlertState) =>
            now' - runStart' >= Hold(result'.state)]_vars

C11_Witness ==
    /\ lastCall = "reset"
    /\ emitted = "drowsy"
    /\ prevCand = "drowsy"
    /\ currentState = "unknown"
    /\ stateStartTime = now
    /\ now > prevTime

(* C12: unknown is the initial currentState and, once currentState has     *)
(* left unknown, only reset() makes it unknown again: no call of           *)
(* analyzeFaceLandmarks does.                                              *)
C12_UnknownOnlyByReset ==
    /\ currentState = "unknown"
    /\ [][/\ (currentState # "unknown" /\ currentState' = "unknown") =>
                lastCall' = "reset"
          /\ lastCall' = "face" => currentState' # "unknown"]_vars

C12_Witness ==
    /\ lastCall = "noface"
    /\ result.state = "unknown"
    /\ currentState = "drowsy"
    /\ prevCand = "drowsy"
    /\ emitted = "drowsy"

(* C13: unconfirmed candidates collapse to focused.  The call that follows *)
(* an emitted alert state X with a different alert candidate Y emits       *)
(* focused, and so does every call of the Y run before it has lasted H(Y). *)
C13_CollapseToFocused ==
    [][lastCall' = "face" =>
        /\ (emitted \in AlertState /\ prevCand' \in AlertState
              /\ prevCand' # emitted) => result'.state = "focused"
        /\ (prevCand' \in AlertState /\ now' - runStart' < Hold(prevCand'))
              => result'.state = "focused"]_vars

C13_Witness ==
    /\ onFace
    /\ prevEmitted = "drowsy"
    /\ prevCand = "distracted"
    /\ result.state = "focused"
    /\ lastOther = now
    /\ now >= DROWSY_TIME_THRESHOLD

(* C14 as stated: for a fixed pose, of two successive drowsy results the   *)
(* one with the smaller eye aspect ratio has the strictly greater          *)
(* confidence.                                                             *)
C14_StrictlyMonotone ==
    [][(/\ lastCall = "face" /\ lastCall' = "face"
        /\ result.state = "drowsy" /\ result'.state = "drowsy"
        /\ result'.headPose = result.headPose
        /\ result'.eyeAspectRatio < result.eyeAspectRatio)
          => result'.confidence > result.confidence]_vars

(* C14 amended: for a fixed pose the drowsy confidence never decreases as  *)
(* the eye aspect ratio decreases, and it strictly increases whenever the  *)
(* smaller ratio is below 0.9 of the threshold (0.225), where the floor of *)
(* 0.1 no longer binds.                                                    *)
C14_Monotone ==
    [][(/\ lastCall = "face" /\ lastCall' = "face"
        /\ result.state = "drowsy" /\ result'.state = "drowsy"
        /\ result'.headPose = result.headPose
        /\ result'.eyeAspectRatio < result.eyeAspectRatio)
          => /\ result'.confidence >= result.confidence
             /\ 10 * result'.eyeAspectRatio < 9 * DROWSY_EAR_THRESHOLD
                  => result'.confidence > result.confidence]_vars

C14_Witness ==
    /\ onFace
    /\ result.state = "drowsy"
    /\ prevEmitted = "drowsy"
    /\ result.eyeAspectRatio = 22
    /\ result.confidence > ConfScale \div 10
    /\ result.headPose = Pose(45, 31, 0)

(* C15: when the emitted state is the candidate, the confidence is the     *)
(* formula of that state clamped to [0.1, 1.0]: distracted                 *)
(* max(0.3, min(pitch/45, 1)); relaxing max(0.3, min(|yaw|/60, 1)), of yaw *)
(* alone; focused the mean of 1 - |pitch|/45, 1 - |yaw|/60 and the eye     *)
(* term, which is 1 only for an eye aspect ratio above the threshold.      *)
C15_PerStateFormula ==
    (onFace /\ result.state = prevCand) =>
        LET p == result.headPose.pitch
            y == Abs(result.headPose.yaw)
            e == result.eyeAspectRatio
            tenth == ConfScale \div 10
            clamp(c) == Max(tenth, Min(ConfScale, c))
        IN  /\ result.state = "distracted" =>
                result.confidence =
                    clamp(Max(3 * tenth, Min((p * ConfScale) \div 45, ConfScale)))
            /\ result.state = "relaxing" =>
                result.confidence =
                    clamp(Max(3 * tenth, Min((y * ConfScale) \div 60, ConfScale)))
            /\ result.state = "focused" =>
                3 * result.confidence =
                    (ConfScale - (Abs(p) * ConfScale) \div 45)
                    + (ConfScale - (y * ConfScale) \div 60)
                    + (IF e > 25 THEN ConfScale ELSE 0)

C15_Witness ==
    /\ onFace
    /\ result.state = "relaxing"
    /\ result.headPose = Pose(-16, 0, 0)
    /\ 10 * result.confidence = 3 * ConfScale

(* C16: every result whose state is unknown has confidence 0.1.            *)
C16_UnknownConfidence ==
    (lastCall \in {"face", "noface"} /\ result.state = "unknown") =>
        10 * result.confidence = ConfScale

(* C17: no terminal state.  In every reachable state, for each of focused, *)
(* distracted, relaxing and drowsy one call of analyzeFaceLandmarks on a   *)
(* suitable measurement makes it the currentState; focused can be emitted  *)
(* by one call, and each alert state X by a call that starts its run       *)
(* followed by a call on the same measurement H(X) later.                  *)
suitable(s) ==
    CASE s = "focused" -> Neutral
      [] s = "distracted" -> LookDown
      [] s = "relaxing" -> Sideways
      [] s = "drowsy" -> EyesClosed

canEnter(s) == ENABLED (AnalyzeFace(suitable(s), now) /\ currentState' = s)

canEmit(s) ==
    IF s = "focused"
    THEN ENABLED (AnalyzeFace(suitable(s), now) /\ result'.state = s)
    ELSE ENABLED (/\ AnalyzeFace(suitable(s), now)
                  /\ (ENABLED (AnalyzeFace(suitable(s), now + Hold(s))
                                  /\ result'.state = s))')

C17_NoTerminalState ==
    \A s \in FocusState \ {"unknown"} : canEnter(s) /\ canEmit(s)

C17_Witness ==
    /\ onFace
    /\ result.state = "drowsy"
    /\ currentState = "drowsy"
    /\ now >= 45000

(* C18: the classifier is total.  In every reachable state a call of      *)
(* analyzeFaceLandmarks on any measurement (the one of a landmark set      *)
(* without eye and head-pose landmarks included) or on an empty landmark   *)
(* set can be taken; the result's state and currentState are FocusState    *)
(* values, and the call leaves stateTimers as it was.                      *)
C18_Total ==
    /\ [](/\ \A m \in Frames : ENABLED AnalyzeFace(m, now)
          /\ ENABLED AnalyzeNoFace
          /\ lastCall \in {"face", "noface"} => result.state \in FocusState
          /\ currentState \in FocusState)
    /\ [][lastCall' \in {"face", "noface"} => stateTimers' = stateTimers]_vars

C18_Witness ==
    /\ onFace
    /\ lastFrame = Sentinel
    /\ result.state \in FocusState
    /\ prevEmitted = "focused"
    /\ lastOther >= 0

(* C19: a call on an empty or missing landmark set returns unknown with   *)
(* zero pose and zero eye aspect ratio and leaves currentState and         *)
(* stateStartTime as they were, so the hold timer keeps running: when the  *)
(* alert candidate X of the latest measurement comes again H(X) or more    *)
(* after that measurement, with no reset in between, X is emitted.         *)
C19_NoFaceKeepsTimer ==
    [][/\ lastCall' = "noface" =>
            /\ result'.state = "unknown"
            /\ result'.headPose = Pose(0, 0, 0)
            /\ result'.eyeAspectRatio = 0
            /\ currentState' = currentState
            /\ stateStartTime' = stateStartTime
       /\ (/\ lastCall' = "face" /\ ~fresh
           /\ prevCand \in AlertState /\ prevCand' = prevCand
           /\ now' - prevTime >= Hold(prevCand))
            => result'.state = prevCand]_vars

C19_Witness ==
    /\ lastCall = "noface"
    /\ result.state = "unknown"
    /\ currentState = "distracted"
    /\ prevCand = "distracted"
    /\ emitted = "focused"
    /\ stateStartTime = prevTime
    /\ ~fresh

(* C20: confirmed states do not flicker.  Once an alert state X has been   *)
(* emitted, every later call of the same run of candidate X emits X; the   *)
(* call after it emits something else only when its candidate differs.     *)
C20_NoFlicker ==
    [][(lastCall' = "face" /\ ~fresh /\ emitted \in AlertState) =>
        /\ prevCand' = prevCand => result'.state = emitted
        /\ result'.state # emitted => prevCand' # emitted]_vars

C20_Witness ==
    /\ onFace
    /\ emitted = "relaxing"
    /\ prevEmitted = "relaxing"
    /\ result.state = "relaxing"
    /\ heldMs > RELAXING_TIME_THRESHOLD

(* C21: getCurrentState returns the latest candidate, not the latest      *)
(* emitted state: after a call on a measurement it is the immediate state  *)
(* of that measurement, during a hold window it is the alert candidate     *)
(* while the result says focused, and the emitted state is always the      *)
(* candidate or focused.                                                   *)
C21_CurrentStateIsCandidate ==
    onFace =>
        /\ getCurrentState =
              determineImmediateState(result.headPose, result.eyeAspectRatio)
        /\ result.state \in {getCurrentState, "focused"}
        /\ (getCurrentState \in AlertState /\ heldMs < Hold(getCurrentState))
              => result.state = "focused"

C21_Witness ==
    /\ onFace
    /\ getCurrentState = "drowsy"
    /\ result.state = "focused"
    /\ prevEmitted = "focused"
    /\ heldMs > 0

(* C22: the detection history is bounded to the last N detections: at most *)
(* 50 entries on the Home page and 100 on the Python AI page, always the   *)
(* most recent arrivals in arrival order, and empty after detection is     *)
(* started.                                                                *)
C22_HistoryBounded ==
    /\ Len(detectionHistory) <= historyKeep
    /\ \A i \in 1..Len(detectionHistory) :
          detectionHistory[i] = arrivals - Len(detectionHistory) + i

(* C23: debounce(func, wait): func runs only when wait ms have passed      *)
(* since the most recent call with no call in between, and with that       *)
(* call's arguments; a burst of calls each less than wait ms after the     *)
(* previous one causes exactly one invocation of func, after the last call *)
(* of the burst.                                                           *)
C23_Debounce ==
    /\ [][dbRunsSince' > dbRunsSince =>
             /\ dbClock >= dbLastAt + wait
             /\ dbRanArgs' = dbLastArgs
             /\ dbRunsSince = 0]_vars
    /\ [][(dbCalls' > dbCalls /\ dbBurst' > 1) => dbRunsSince = 0]_vars
    /\ [](dbRunsSince <= 1)
    /\ (timers # {}) ~> (timers = {} /\ dbRunsSince = 1)

C23_Witness ==
    /\ dbBurst >= 3
    /\ dbRunsSince = 1
    /\ dbRanArgs = dbLastArgs
    /\ dbLastArgs = "b"

(* C24: PythonCamera holds no connection while inactive: whenever isActive *)
(* is false or the component is unmounted there is no open or connecting   *)
(* WebSocket and onStateChange is not invoked, and at most one WebSocket   *)
(* is live at any time.                                                    *)
C24_NoConnectionWhileInactive ==
    /\ ~(mounted /\ isActive) =>
          /\ \A id \in DOMAIN sockets : ~live(id)
          /\ lastDelivery # "inactive"
    /\ Cardinality({id \in DOMAIN sockets : live(id)}) <= 1

(* C25: connectionState agrees with the socket: connectionState =          *)
(* 'connected' implies wsRef.current is the open WebSocket, every open     *)
(* WebSocket of the component is referenced by wsRef.current, and an       *)
(* onclose or onerror event of a socket that is not the current one        *)
(* changes neither wsRef nor connectionState.                              *)
C25_StateAgreesWithSocket ==
    /\ [](connectionState = "connected" => (wsRef # 0 /\ sockets[wsRef] = "open"))
    /\ [](\A id \in DOMAIN sockets : sockets[id] = "open" => wsRef = id)
    /\ [][\A id \in DOMAIN sockets :
             (id # wsRef /\ sockets'[id] # sockets[id]
                /\ sockets'[id] \in {"closing", "closed"}
                /\ ~(Activate \/ Deactivate \/ Unmount))
             => (wsRef' = wsRef /\ connectionState' = connectionState)]_vars

(* C26: StudyModePage switches to the active session only on confirmed    *)
(* success: sessionActive becomes true only after /session/start replied   *)
(* with success = true; on a failure reply or a network error it stays     *)
(* false; isStarting is false again after every attempt, whatever its      *)
(* outcome; handleEndSession returns sessionActive to false.               *)
C26_ActiveOnlyOnSuccess ==
    /\ [][(sessionActive' /\ ~sessionActive) =>
             (inFlight /\ ~inFlight'
                /\ lastReply'.kind = "json" /\ lastReply'.success = "true")]_vars
    /\ [][(inFlight /\ ~inFlight' /\ lastReply'.success # "true") =>
             (~sessionActive /\ ~sessionActive')]_vars
    /\ [][(inFlight /\ ~inFlight') => ~isStarting']_vars
    /\ [](~inFlight => ~isStarting)
    /\ [][handleEndSession => ~sessionActive']_vars

C26_Witness ==
    /\ sessionActive
    /\ ~isStarting
    /\ lastReply.success = "true"
    /\ alerts >= 2
    /\ attempts = alerts + 1

(* v lies in [lo, hi] *)
inRange(v, lo, hi) == v.k # "nan" /\ ~jsLess(v, lo) /\ ~jsGreater(v, hi)

(* C27: calculateHeadPose returns in-range angles for every landmark set:  *)
(* pitch and yaw in [-90, 90] and roll in [-45, 45], degenerate geometry    *)
(* included; for an empty landmark set or a missing reference landmark it   *)
(* returns exactly {pitch 0, yaw 0, roll 0}.                               *)
C27_HeadPoseInRange ==
    poseCalled =>
        /\ inRange(poseResult.pitch, -90, 90)
        /\ inRange(poseResult.yaw, -90, 90)
        /\ inRange(poseResult.roll, -45, 45)
        /\ landmarks.missing # "none" => poseResult = ZeroPose

TypeOK ==
    /\ currentState \in FocusState
    /\ stateStartTime \in TimePoints
    /\ now \in TimePoints
    /\ lastCall \in {"none", "face", "noface", "reset"}
====
